---------------------------- MODULE Spec2Model ----------------------------
(***************************************************************************)
(* Model of src/Backend/pdf-to-audio-api.py: the segmenter gateway         *)
(* (get_audio_book_segment), the parallel synthesis engine                 *)
(* (synthesize_audio_parallel / process_chunk), the timing reconstruction  *)
(* and the page cache inside process_page.                                 *)
(*                                                                         *)
(* Texts are sequences of one-character strings.  Python floats are        *)
(* modelled as exact rationals <<numerator, denominator>> in lowest terms  *)
(* with a positive denominator; IEEE rounding is not modelled.  A Python   *)
(* None is the empty tuple and a present value x is the 1-tuple <<x>>.     *)
(* A Python dict is a record; the empty dict {} is the empty function.     *)
(***************************************************************************)
EXTENDS Integers, Sequences, FiniteSets, TLC

VARIABLES
    \* ---- process_page (lines 286-508), one call per request thread ----
    segments_cache, \* the module-level dict: content hash -> segment list
    files,          \* the audio cache directory: cache key -> audio written
    pc,             \* where each request thread is in process_page
    loc,            \* the locals of each thread's call, and what the call has done
    started,        \* calls of process_page so far
    responses,      \* per cache key, the segments of the first response after a synthesis
    \* ---- synthesize_audio_parallel (lines 221-281) ----
    s_pc,          \* "start" | "direct" | "submit" | "wait" | "collect" | "merge" | "done"
    s_tokens,      \* count_tokens(text)
    s_chunks,      \* split_text_by_tokens(text, TTS_MAX_TOKENS)
    s_submitted,   \* tasks handed to the executor so far
    s_started,     \* tasks taken from the executor's work queue so far
    s_running,     \* chunk indices whose process_chunk is running
    s_outcome,     \* what the TTS pipeline did for each chunk
    s_queue,       \* results_queue
    s_shuffled,    \* some chunk was put on results_queue before a chunk of lower index
    s_results,     \* results
    s_before,      \* the output file before the call
    s_file,        \* the output file
    s_writes,      \* calls of sf.write
    s_status,      \* how the call ended
    \* ---- timing reconstruction (process_page lines 378-501) ----
    t_pc,          \* "input" | "done"
    t_segments,    \* the raw segment list handed to the reconstruction
    t_duration,    \* audio_info.duration, a rational
    t_out,         \* the enhanced_segments returned, None before
    t_warning,     \* "[Warning] Could not calculate timing info" was logged
    \* ---- split_text_by_tokens (lines 101-114) ----
    k_pc,          \* "input" | "done"
    k_text,        \* text, a sequence of characters, each the tuple of its UTF-8 bytes
    k_max_tokens,  \* max_tokens
    k_encoding,    \* get_encoding() returned an encoder
    k_chunks,      \* the list returned
    \* ---- get_tts_pipeline (lines 69-80), called by request threads and workers ----
    tts_pipelines,      \* _tts_pipelines: voice -> pipeline instance, None when absent
    tts_pipelines_lock, \* _tts_pipelines_lock: the thread that holds it, None when free
    g_pc,          \* where each thread is in get_tts_pipeline
    g_voice,       \* the voice each thread asks for
    g_calls,       \* calls of get_tts_pipeline each thread has made
    g_created,     \* per voice, the KPipeline instances constructed and stored so far
    g_returned     \* per voice, the instances that calls have returned so far

timingVars == <<t_pc, t_segments, t_duration, t_out, t_warning>>

synthVars == <<s_pc, s_tokens, s_chunks, s_submitted, s_started, s_running, s_outcome,
               s_queue, s_shuffled, s_results, s_before, s_file, s_writes, s_status>>

pageVars == <<segments_cache, files, pc, loc, started, responses>>

splitVars == <<k_pc, k_text, k_max_tokens, k_encoding, k_chunks>>

pipelineVars == <<tts_pipelines, tts_pipelines_lock, g_pc, g_voice, g_calls, g_created,
                  g_returned>>

vars == <<pageVars, synthVars, timingVars, splitVars, pipelineVars>>

notPageVars == <<synthVars, timingVars, splitVars, pipelineVars>>
notSynthVars == <<pageVars, timingVars, splitVars, pipelineVars>>
notTimingVars == <<pageVars, synthVars, splitVars, pipelineVars>>
notSplitVars == <<pageVars, synthVars, timingVars, pipelineVars>>
notPipelineVars == <<pageVars, synthVars, timingVars, splitVars>>

-----------------------------------------------------------------------------
(* Bounds of the model *)

MaxThreads == 2     \* concurrent request threads
MaxRequests == 2    \* calls of process_page in one run
MaxPad == 1         \* whitespace characters around a page text
MaxChunks == 5      \* chunks of the longest text handed to the synthesizer

MaxSegs == 2        \* segments per list in the timing inputs
MaxTextLen == 2     \* characters per segment text in the timing inputs
MaxHalfSeconds == 3 \* measured durations 0, 1/2, .. MaxHalfSeconds/2 seconds

MaxSplitLen == 3    \* characters per text handed to split_text_by_tokens alone
MaxSplitTokens == 3 \* max_tokens in 1..MaxSplitTokens there
MaxPipelineCalls == 2 \* calls of get_tts_pipeline by one thread

-----------------------------------------------------------------------------
(* Constants of the program *)

RETRY_LIMIT == 3
MIN_PAGE_CHARS == 100
SAMPLE_RATE == 24000
TTS_MAX_TOKENS == 100
MAX_WORKERS == 4

-----------------------------------------------------------------------------
(* Python values *)

None == <<>>
Some(x) == <<x>>
EmptyDict == <<>>

-----------------------------------------------------------------------------
(* Float arithmetic, as exact rationals *)

Abs(n) == IF n < 0 THEN -n ELSE n

RECURSIVE GCD(_, _)
GCD(a, b) == IF b = 0 THEN a ELSE GCD(b, a % b)

Rat(n, d) ==
    LET s == IF d < 0 THEN -1 ELSE 1
        g == GCD(Abs(n), Abs(d))
    IN  <<(s * n) \div g, (s * d) \div g>>

FromInt(n) == <<n, 1>>
Zero == FromInt(0)
RAdd(x, y) == Rat(x[1] * y[2] + y[1] * x[2], x[2] * y[2])
RSub(x, y) == Rat(x[1] * y[2] - y[1] * x[2], x[2] * y[2])
RMul(x, y) == Rat(x[1] * y[1], x[2] * y[2])
RDiv(x, y) == Rat(x[1] * y[2], x[2] * y[1])
RLess(x, y) == x[1] * y[2] < y[1] * x[2]
RLeq(x, y) == x[1] * y[2] <= y[1] * x[2]
IsZero(x) == x[1] = 0

-----------------------------------------------------------------------------
(* Texts *)

WHITESPACE == {" "}
PUNCTUATION == {".", ",", ";", ":", "!", "?", "-"}

RECURSIVE LStrip(_)
LStrip(s) == IF s # <<>> /\ Head(s) \in WHITESPACE THEN LStrip(Tail(s)) ELSE s

RECURSIVE RStrip(_)
RStrip(s) ==
    IF s # <<>> /\ s[Len(s)] \in WHITESPACE
    THEN RStrip(SubSeq(s, 1, Len(s) - 1))
    ELSE s

\* str.strip()
Strip(s) == RStrip(LStrip(s))

\* sum(1 for char in segment_text if char in ".,;:!?-")
PunctuationCount(text) == Cardinality({i \in 1..Len(text) : text[i] \in PUNCTUATION})

Segment(text) == [speaker |-> "Narrator", text |-> text]

-----------------------------------------------------------------------------
(* The state of a component that is not running *)

\* the locals of a thread that is not inside process_page
IdleLocals ==
    [len |-> 0, hash |-> 0, page |-> 0, data |-> EmptyDict, segments |-> <<>>,
     attempt |-> 0, calls |-> 0, sleeps |-> 0, fails |-> 0, first |-> None,
     synth |-> "not_run", wrote |-> FALSE, stored |-> FALSE, result |-> None,
     late |-> FALSE]

Rep(c, n) == [i \in 1..n |-> c]

PageChars == {"a", "b"}
PageLengths == {0, 1, MIN_PAGE_CHARS - 1, MIN_PAGE_CHARS}
PageNumbers == {1, 2}

\* a page of n equal characters inside the same run of blanks on either side
PageTexts ==
    {Rep(" ", pad) \o Rep(c, n) \o Rep(" ", pad) :
        pad \in 0..MaxPad, c \in PageChars, n \in PageLengths}

PageTokenCounts == {TTS_MAX_TOKENS, TTS_MAX_TOKENS + 1}

CharCode == [c \in {" ", "a", "b"} |-> CASE c = " " -> 32 [] c = "a" -> 97 [] c = "b" -> 98]

RECURSIVE Digest(_)
Digest(text) == IF text = <<>> THEN 0 ELSE CharCode[Head(text)] + Digest(Tail(text))

\* line 310: abs(hash(stripped_text)) % 10000000000.  Python's string hash is
\* opaque; the digest stands for it and has no collision on PageTexts.
ContentHash(stripped_text) == Digest(stripped_text)

\* line 312: the date is the same for every request of a run
CacheKey(content_hash, page_number) == <<content_hash, page_number>>

\* every content hash and every cache key a run can meet
ContentHashes ==
    {ContentHash(Strip(page_text)) : page_text \in
        {x \in PageTexts : Len(Strip(x)) >= MIN_PAGE_CHARS}}
CacheKeys == {CacheKey(h, n) : h \in ContentHashes, n \in PageNumbers}

Threads == 1..MaxThreads

NoSegments == [h \in ContentHashes |-> None]
NoFiles == [k \in CacheKeys |-> None]

PageIdle ==
    /\ segments_cache = NoSegments
    /\ files = NoFiles
    /\ pc = [t \in Threads |-> "idle"]
    /\ loc = [t \in Threads |-> IdleLocals]
    /\ started = 0
    /\ responses = NoFiles

SynthIdle ==
    /\ s_pc = "idle"
    /\ s_tokens = 0
    /\ s_chunks = <<>>
    /\ s_submitted = 0
    /\ s_started = 0
    /\ s_running = {}
    /\ s_outcome = <<>>
    /\ s_queue = <<>>
    /\ s_shuffled = FALSE
    /\ s_results = <<>>
    /\ s_before = None
    /\ s_file = None
    /\ s_writes = 0
    /\ s_status = "idle"

TimingIdle ==
    /\ t_pc = "idle"
    /\ t_segments = <<>>
    /\ t_duration = Zero
    /\ t_out = None
    /\ t_warning = FALSE

SplitIdle ==
    /\ k_pc = "idle"
    /\ k_text = <<>>
    /\ k_max_tokens = 1
    /\ k_encoding = TRUE
    /\ k_chunks = <<>>

\* two of the voices of get_voices, the first the default of every signature
Voices == {"af_heart", "pe_leaf"}

\* no thread is inside get_tts_pipeline and no pipeline has been made
PipelineIdle ==
    /\ tts_pipelines = [voice \in Voices |-> None]
    /\ tts_pipelines_lock = None
    /\ g_pc = [t \in Threads |-> "idle"]
    /\ g_voice = [t \in Threads |-> "af_heart"]
    /\ g_calls = [t \in Threads |-> 0]
    /\ g_created = [voice \in Voices |-> 0]
    /\ g_returned = [voice \in Voices |-> {}]

-----------------------------------------------------------------------------
(* The tokenizer: a text of the synthesizer is the sequence of its tokens,   *)
(* numbered 1..n; a chunk is the run of token positions it decodes.          *)

Min(a, b) == IF a <= b THEN a ELSE b

\* len(encoding.encode(text)) of a chunk
count_tokens(chunk) == chunk.last - chunk.first + 1

\* mutant: one chunk more than the whole multiples of max_tokens in n
M_SplitOneMore(n, max_tokens) ==
    [k \in 1..(n \div max_tokens + 1) |->
        [first |-> (k - 1) * max_tokens + 1, last |-> Min(k * max_tokens, n)]]

\* range(0, len(tokens), max_tokens): one chunk per start index
split_text_by_tokens(n, max_tokens) ==
    [k \in 1..((n + max_tokens - 1) \div max_tokens) |->
        [first |-> (k - 1) * max_tokens + 1, last |-> Min(k * max_tokens, n)]]

-----------------------------------------------------------------------------
(* The encoder at the level of bytes.  A character is the tuple of its UTF-8  *)
(* bytes.  encoding.encode gives byte-pair tokens, each a run of bytes, and   *)
(* encoding.decode joins the bytes of its tokens and decodes them as UTF-8    *)
(* with errors="replace".                                                     *)

LATIN_A == <<97>>               \* "a"
E_ACUTE == <<195, 169>>         \* U+00E9, one token of two bytes
THUMBS_UP == <<240, 159, 145, 141>>   \* U+1F44D, three tokens: F0 9F | 91 | 8D
REPLACEMENT == <<239, 191, 189>>      \* U+FFFD

\* the bytes of a sequence of characters or of tokens
RECURSIVE Bytes(_)
Bytes(parts) == IF parts = <<>> THEN <<>> ELSE Head(parts) \o Bytes(Tail(parts))

\* the tokens of one character on its own
TokensOf(char) ==
    IF char = THUMBS_UP THEN << <<240, 159>>, <<145>>, <<141>> >> ELSE <<char>>

\* encoding.encode(text); two "a" in a row are merged into one token
RECURSIVE Encode(_)
Encode(text) ==
    IF text = <<>> THEN <<>>
    ELSE IF Len(text) >= 2 /\ text[1] = LATIN_A /\ text[2] = LATIN_A
    THEN <<LATIN_A \o LATIN_A>> \o Encode(SubSeq(text, 3, Len(text)))
    ELSE TokensOf(Head(text)) \o Encode(Tail(text))

IsContinuation(byte) == byte >= 128 /\ byte <= 191

\* the length of the UTF-8 sequence a byte starts, 0 when it starts none
SequenceLen(byte) ==
    IF byte < 128 THEN 1
    ELSE IF byte >= 194 /\ byte <= 223 THEN 2
    ELSE IF byte >= 224 /\ byte <= 239 THEN 3
    ELSE IF byte >= 240 /\ byte <= 244 THEN 4
    ELSE 0

\* how many of the first n bytes are continuation bytes, from the start on
RECURSIVE Continuations(_, _)
Continuations(bytes, n) ==
    IF n = 0 \/ bytes = <<>> \/ ~IsContinuation(Head(bytes)) THEN 0
    ELSE 1 + Continuations(Tail(bytes), n - 1)

\* bytes.decode("utf-8", errors="replace"): an ill-formed run becomes U+FFFD
RECURSIVE Utf8Decode(_)
Utf8Decode(bytes) ==
    IF bytes = <<>> THEN <<>>
    ELSE LET need == SequenceLen(Head(bytes))
             have == Continuations(Tail(bytes), IF need = 0 THEN 0 ELSE need - 1)
         IN  IF need > 0 /\ have = need - 1
             THEN <<SubSeq(bytes, 1, need)>> \o Utf8Decode(SubSeq(bytes, need + 1, Len(bytes)))
             ELSE <<REPLACEMENT>> \o Utf8Decode(SubSeq(bytes, have + 2, Len(bytes)))

\* encoding.decode(chunk_tokens)
Decode(tokens) == Utf8Decode(Bytes(tokens))

\* lines 105-114, on the text itself
SplitText(text, max_tokens, encoding) ==
    IF ~encoding THEN <<text>>
    ELSE LET tokens == Encode(text)
             slices == split_text_by_tokens(Len(tokens), max_tokens)
         IN  [k \in 1..Len(slices) |->
                 Decode(SubSeq(tokens, slices[k].first, slices[k].last))]

SplitChars == {LATIN_A, E_ACUTE, THUMBS_UP}

RECURSIVE SplitTextsUpTo(_)
SplitTextsUpTo(n) ==
    IF n = 0 THEN {<<>>}
    ELSE LET shorter == SplitTextsUpTo(n - 1)
         IN  shorter \cup {Append(t, c) : t \in shorter, c \in SplitChars}

SplitInit ==
    /\ PageIdle
    /\ SynthIdle
    /\ TimingIdle
    /\ PipelineIdle
    /\ k_pc = "input"
    /\ k_text \in SplitTextsUpTo(MaxSplitLen)
    /\ k_max_tokens \in 1..MaxSplitTokens
    /\ k_encoding \in BOOLEAN
    /\ k_chunks = <<>>

\* one call of split_text_by_tokens(text, max_tokens)
Split ==
    /\ k_pc = "input"
    /\ k_pc' = "done"
    /\ k_chunks' = SplitText(k_text, k_max_tokens, k_encoding)
    /\ UNCHANGED <<k_text, k_max_tokens, k_encoding>>
    /\ UNCHANGED notSplitVars

SplitNext == Split

SpecSplit == SplitInit /\ [][SplitNext]_vars

-----------------------------------------------------------------------------
(* get_tts_pipeline, lines 69-80, called from request threads (line 229) and  *)
(* from pool workers (line 200).  A pipeline instance is named by the number  *)
(* of its construction for its voice; KPipeline(...) either returns a new     *)
(* instance or raises.                                                        *)

\* the registry after the preload of line 601, which runs before the server
Preloaded == [voice \in Voices |-> IF voice = "af_heart" THEN Some(1) ELSE None]

\* the module is either imported (lines 70-71 only) or run as the main program
\* (line 601 as well)
PipelineInit ==
    /\ PageIdle
    /\ SynthIdle
    /\ TimingIdle
    /\ SplitIdle
    /\ tts_pipelines \in {[voice \in Voices |-> None], Preloaded}
    /\ tts_pipelines_lock = None
    /\ g_pc = [t \in Threads |-> "idle"]
    /\ g_voice = [t \in Threads |-> "af_heart"]
    /\ g_calls = [t \in Threads |-> 0]
    /\ g_created = [voice \in Voices |-> IF tts_pipelines[voice] = None THEN 0 ELSE 1]
    /\ g_returned = [voice \in Voices |-> {}]

\* mutant: the lock never blocks
M_LockNeverHeld(lock) == TRUE

\* threading.Lock: acquire blocks until no thread holds the lock
LockFree(lock) == lock = None

\* line 73: a thread calls get_tts_pipeline(voice)
GetTtsPipeline(t, voice) ==
    /\ g_pc[t] = "idle"
    /\ g_calls[t] < MaxPipelineCalls
    /\ g_pc' = [g_pc EXCEPT ![t] = "acquire"]
    /\ g_voice' = [g_voice EXCEPT ![t] = voice]
    /\ g_calls' = [g_calls EXCEPT ![t] = @ + 1]
    /\ UNCHANGED <<tts_pipelines, tts_pipelines_lock, g_created, g_returned>>
    /\ UNCHANGED notPipelineVars

\* line 76: with _tts_pipelines_lock, entry
AcquireLock(t) ==
    /\ g_pc[t] = "acquire"
    /\ LockFree(tts_pipelines_lock)
    /\ tts_pipelines_lock' = Some(t)
    /\ g_pc' = [g_pc EXCEPT ![t] = "check"]
    /\ UNCHANGED <<tts_pipelines, g_voice, g_calls, g_created, g_returned>>
    /\ UNCHANGED notPipelineVars

\* line 77: if voice not in _tts_pipelines
CheckVoice(t) ==
    /\ g_pc[t] = "check"
    /\ g_pc' = [g_pc EXCEPT ![t] =
                    IF tts_pipelines[g_voice[t]] = None THEN "create" ELSE "return"]
    /\ UNCHANGED <<tts_pipelines, tts_pipelines_lock, g_voice, g_calls, g_created, g_returned>>
    /\ UNCHANGED notPipelineVars

\* lines 78-79: KPipeline(lang_code='a') and the store; when the constructor
\* raises, the with statement releases the lock and the call ends
CreatePipeline(t, raised) ==
    /\ g_pc[t] = "create"
    /\ IF raised
       THEN /\ g_pc' = [g_pc EXCEPT ![t] = "idle"]
            /\ tts_pipelines_lock' = None
            /\ UNCHANGED <<tts_pipelines, g_created>>
       ELSE /\ g_pc' = [g_pc EXCEPT ![t] = "return"]
            /\ tts_pipelines' =
                  [tts_pipelines EXCEPT ![g_voice[t]] = Some(g_created[g_voice[t]] + 1)]
            /\ g_created' = [g_created EXCEPT ![g_voice[t]] = @ + 1]
            /\ UNCHANGED tts_pipelines_lock
    /\ UNCHANGED <<g_voice, g_calls, g_returned>>
    /\ UNCHANGED notPipelineVars

\* line 80: return _tts_pipelines[voice], and the exit of the with statement
ReturnPipeline(t) ==
    /\ g_pc[t] = "return"
    /\ g_returned' = [g_returned EXCEPT ![g_voice[t]] = @ \cup {tts_pipelines[g_voice[t]][1]}]
    /\ tts_pipelines_lock' = None
    /\ g_pc' = [g_pc EXCEPT ![t] = "idle"]
    /\ UNCHANGED <<tts_pipelines, g_voice, g_calls, g_created>>
    /\ UNCHANGED notPipelineVars

PipelineNext ==
    \E t \in Threads :
        \/ \E voice \in Voices : GetTtsPipeline(t, voice)
        \/ AcquireLock(t)
        \/ CheckVoice(t)
        \/ \E raised \in BOOLEAN : CreatePipeline(t, raised)
        \/ ReturnPipeline(t)

SpecPipeline == PipelineInit /\ [][PipelineNext]_vars

-----------------------------------------------------------------------------
(* The TTS pipeline: an external generator of audio buffers.  A buffer is a  *)
(* sequence of runs <<chunk index, part, frames>>; the direct path           *)
(* synthesizes chunk index 0.                                                *)

TTSOutcomes == {"speech", "no_audio", "exception"}

\* the buffers yielded by pipeline(chunk, voice)
TTSBuffers(chunk_index, outcome) ==
    IF outcome = "speech"
    THEN << <<<<chunk_index, 1, 12000>>>>, <<<<chunk_index, 2, 12000>>>> >>
    ELSE <<>>

\* the audio of a file that an earlier run left in the cache directory
OldAudio == << <<0, 0, 12000>> >>

RECURSIVE Concatenate(_)
\* np.concatenate
Concatenate(buffers) ==
    IF buffers = <<>> THEN <<>> ELSE Head(buffers) \o Concatenate(Tail(buffers))

\* what process_chunk puts on results_queue
process_chunk(chunk_index, outcome) ==
    IF outcome = "exception" THEN <<chunk_index, None>>
    ELSE LET audio_chunks == TTSBuffers(chunk_index, outcome)
         IN  IF audio_chunks = <<>>
             THEN <<chunk_index, None>>
             ELSE <<chunk_index, Some(Concatenate(audio_chunks))>>

\* mutant: results are stored in the order they are taken from the queue
M_PlaceInArrivalOrder(results, idx, audio) ==
    LET free == {i \in 1..Len(results) : results[i] = None}
    IN  IF free = {} THEN results
        ELSE [results EXCEPT ![CHOOSE i \in free : \A j \in free : i <= j] = audio]

\* results[idx-1] = audio
PlaceResult(results, idx, audio) == [results EXCEPT ![idx] = audio]

RECURSIVE M_ValidUntilFirstNull(_)
\* mutant: the first failed chunk ends the merge
M_ValidUntilFirstNull(results) ==
    IF results = <<>> \/ Head(results) = None THEN <<>>
    ELSE <<Head(results)[1]>> \o M_ValidUntilFirstNull(Tail(results))

RECURSIVE ValidResults(_)
\* [r for r in results if r is not None]
ValidResults(results) ==
    IF results = <<>> THEN <<>>
    ELSE IF Head(results) = None THEN ValidResults(Tail(results))
    ELSE <<Head(results)[1]>> \o ValidResults(Tail(results))

\* mutant: the file is written even when no chunk produced audio
M_MergedFileAlways(old_file, valid_results) == Some(Concatenate(valid_results))

\* lines 272-280: the output file after the merge
MergedFile(old_file, valid_results) ==
    IF valid_results = <<>> THEN old_file ELSE Some(Concatenate(valid_results))

\* mutant: a text of exactly TTS_MAX_TOKENS tokens is not a short text
M_ShortTextStrict(token_count) == token_count < TTS_MAX_TOKENS

\* line 227: the test for the direct path
IsShortText(token_count) == token_count <= TTS_MAX_TOKENS

\* mutant: one pool thread per chunk, whatever MAX_WORKERS is
M_PoolUnbounded(total_chunks) == total_chunks

\* max_workers of the ThreadPoolExecutor
PoolSize(total_chunks) == Min(MAX_WORKERS, total_chunks)

\* lines 228-242: the short-text path, on the calling thread
SynthesizeDirect(old_file, outcome) ==
    IF outcome = "exception" THEN [file |-> old_file, status |-> "raised"]
    ELSE LET audio_chunks == TTSBuffers(0, outcome)
         IN  IF audio_chunks # <<>>
             THEN [file |-> Some(Concatenate(audio_chunks)), status |-> "saved"]
             ELSE [file |-> old_file, status |-> "no_audio_warning"]

RECURSIVE Collect(_, _)
\* lines 264-267: the collecting loop, run to the end of the queue
Collect(queue, results) ==
    IF queue = <<>> THEN results
    ELSE Collect(Tail(queue), PlaceResult(results, Head(queue)[1], Head(queue)[2]))

\* lines 221-281 as one step: the file and the way the call ended, for a text
\* of token_count tokens whose chunks the TTS pipeline treats as outcomes say
synthesize_audio_parallel(old_file, token_count, outcomes) ==
    IF IsShortText(token_count)
    THEN SynthesizeDirect(old_file, outcomes[1])
    ELSE LET chunks == split_text_by_tokens(token_count, TTS_MAX_TOKENS)
             queue == [i \in 1..Len(chunks) |-> process_chunk(i, outcomes[i])]
             results == Collect(queue, [i \in 1..Len(chunks) |-> None])
             valid_results == ValidResults(results)
         IN  [file |-> MergedFile(old_file, valid_results),
              status |-> IF valid_results = <<>> THEN "no_audio_error" ELSE "saved"]

-----------------------------------------------------------------------------
(* synthesize_audio_parallel, step by step *)

SynthTokenCounts ==
    {0, 250} \cup {c * TTS_MAX_TOKENS + r : c \in 0..(MaxChunks - 1), r \in {1, TTS_MAX_TOKENS}}

SynthInit ==
    /\ PageIdle
    /\ TimingIdle
    /\ SplitIdle
    /\ PipelineIdle
    /\ s_pc = "start"
    /\ s_tokens \in SynthTokenCounts
    /\ s_chunks = <<>>
    /\ s_submitted = 0
    /\ s_started = 0
    /\ s_running = {}
    /\ s_outcome = <<>>
    /\ s_queue = <<>>
    /\ s_shuffled = FALSE
    /\ s_results = <<>>
    /\ s_before \in {None, Some(OldAudio)}
    /\ s_file = s_before
    /\ s_writes = 0
    /\ s_status = "running"

\* lines 225-227 and 244-250
SynthStart ==
    /\ s_pc = "start"
    /\ IF IsShortText(s_tokens)
       THEN /\ s_pc' = "direct"
            /\ UNCHANGED <<s_chunks, s_outcome>>
       ELSE /\ s_pc' = "submit"
            /\ s_chunks' = split_text_by_tokens(s_tokens, TTS_MAX_TOKENS)
            /\ s_outcome' = [i \in 1..Len(s_chunks') |-> "pending"]
    /\ UNCHANGED <<s_shuffled, s_tokens, s_submitted, s_started, s_running, s_queue, s_results,
                   s_before, s_file, s_writes, s_status>>
    /\ UNCHANGED notSynthVars

\* lines 228-242: short text, on the calling thread
SynthDirect(outcome) ==
    /\ s_pc = "direct"
    /\ s_pc' = "done"
    /\ s_outcome' = <<outcome>>
    /\ LET r == SynthesizeDirect(s_file, outcome)
       IN  /\ s_file' = r.file
           /\ s_status' = r.status
           /\ s_writes' = IF r.status = "saved" THEN s_writes + 1 ELSE s_writes
    /\ UNCHANGED <<s_shuffled, s_tokens, s_chunks, s_submitted, s_started, s_running, s_queue,
                   s_results, s_before>>
    /\ UNCHANGED notSynthVars

\* lines 256-258: executor.submit of the next chunk
SynthSubmit ==
    /\ s_pc = "submit"
    /\ IF s_submitted < Len(s_chunks)
       THEN /\ s_submitted' = s_submitted + 1
            /\ UNCHANGED s_pc
       ELSE /\ s_pc' = "wait"
            /\ UNCHANGED s_submitted
    /\ UNCHANGED <<s_shuffled, s_tokens, s_chunks, s_started, s_running, s_outcome, s_queue,
                   s_results, s_before, s_file, s_writes, s_status>>
    /\ UNCHANGED notSynthVars

\* a pool thread takes the oldest submitted task
WorkerTake ==
    /\ s_started < s_submitted
    /\ Cardinality(s_running) < PoolSize(Len(s_chunks))
    /\ s_started' = s_started + 1
    /\ s_running' = s_running \cup {s_started + 1}
    /\ UNCHANGED <<s_shuffled, s_pc, s_tokens, s_chunks, s_submitted, s_outcome, s_queue, s_results,
                   s_before, s_file, s_writes, s_status>>
    /\ UNCHANGED notSynthVars

\* lines 193-219: process_chunk runs to its results_queue.put
WorkerFinish(chunk_index, outcome) ==
    /\ chunk_index \in s_running
    /\ s_running' = s_running \ {chunk_index}
    /\ s_outcome' = [s_outcome EXCEPT ![chunk_index] = outcome]
    /\ s_queue' = Append(s_queue, process_chunk(chunk_index, outcome))
    /\ s_shuffled' = (s_shuffled \/ \E earlier \in s_running : earlier < chunk_index)
    /\ UNCHANGED <<s_pc, s_tokens, s_chunks, s_submitted, s_started, s_results,
                   s_before, s_file, s_writes, s_status>>
    /\ UNCHANGED notSynthVars

\* lines 261-264: every future is done, the pool is shut down
SynthWait ==
    /\ s_pc = "wait"
    /\ s_started = Len(s_chunks)
    /\ s_running = {}
    /\ s_pc' = "collect"
    /\ s_results' = [i \in 1..Len(s_chunks) |-> None]
    /\ UNCHANGED <<s_shuffled, s_tokens, s_chunks, s_submitted, s_started, s_running, s_outcome,
                   s_queue, s_before, s_file, s_writes, s_status>>
    /\ UNCHANGED notSynthVars

\* lines 265-267: one turn of the collecting loop
SynthCollect ==
    /\ s_pc = "collect"
    /\ IF s_queue # <<>>
       THEN /\ s_results' = PlaceResult(s_results, Head(s_queue)[1], Head(s_queue)[2])
            /\ s_queue' = Tail(s_queue)
            /\ UNCHANGED s_pc
       ELSE /\ s_pc' = "merge"
            /\ UNCHANGED <<s_results, s_queue>>
    /\ UNCHANGED <<s_shuffled, s_tokens, s_chunks, s_submitted, s_started, s_running, s_outcome,
                   s_before, s_file, s_writes, s_status>>
    /\ UNCHANGED notSynthVars

\* lines 269-281
SynthMerge ==
    /\ s_pc = "merge"
    /\ s_pc' = "done"
    /\ LET valid_results == ValidResults(s_results)
       IN  /\ s_file' = MergedFile(s_file, valid_results)
           /\ IF valid_results = <<>>
              THEN /\ s_status' = "no_audio_error"
                   /\ UNCHANGED s_writes
              ELSE /\ s_status' = "saved"
                   /\ s_writes' = s_writes + 1
    /\ UNCHANGED <<s_shuffled, s_tokens, s_chunks, s_submitted, s_started, s_running, s_outcome,
                   s_queue, s_results, s_before>>
    /\ UNCHANGED notSynthVars

SynthNext ==
    \/ SynthStart
    \/ \E outcome \in TTSOutcomes : SynthDirect(outcome)
    \/ SynthSubmit
    \/ WorkerTake
    \/ \E chunk_index \in s_running, outcome \in TTSOutcomes :
          WorkerFinish(chunk_index, outcome)
    \/ SynthWait
    \/ SynthCollect
    \/ SynthMerge

SpecSynth == SynthInit /\ [][SynthNext]_vars

\* the calling thread and the pool threads are scheduled: the call never stops
\* for ever while one of its steps can be taken
SpecSynthFair == SynthInit /\ [][SynthNext]_vars /\ WF_vars(SynthNext)


-----------------------------------------------------------------------------
(* process_page, lines 359-367: the text handed to the synthesizer *)

RECURSIVE JoinStripped(_)
\* " ".join(seg.get("text", "").strip() for seg in segments if seg.get("text", "").strip())
JoinStripped(segments) ==
    IF segments = <<>> THEN <<>>
    ELSE LET head == Strip(segments[1].text)
             rest == JoinStripped(Tail(segments))
         IN  IF head = <<>> THEN rest
             ELSE IF rest = <<>> THEN head
             ELSE head \o <<" ">> \o rest

CombinedText(segments) == JoinStripped(segments)

\* mutant: the combined text is not looked at
M_AnyListReachesSynthesis(segments) == segments # <<>>

\* neither "No segments returned" (line 360) nor "Combined text is empty" (line 365)
ReachesSynthesis(segments) ==
    /\ segments # <<>>
    /\ Strip(CombinedText(segments)) # <<>>

-----------------------------------------------------------------------------
(* process_page, lines 384-421: segment timing *)

RECURSIVE TotalChars(_)
\* sum(len(segment["text"]) for segment in segments)
TotalChars(segments) ==
    IF segments = <<>> THEN 0
    ELSE Len(segments[1].text) + TotalChars(Tail(segments))

Max(a, b) == IF a >= b THEN a ELSE b

\* punctuation_count / max(1, segment_chars)
PunctuationDensity(text) == Rat(PunctuationCount(text), Max(1, Len(text)))

\* mutant: the base rate 1.0 is dropped
M_RateFactorNoBase(text) == RMul(PunctuationDensity(text), FromInt(5))

\* 1.0 + (punctuation_density * 5.0)
RateFactor(text) == RAdd(FromInt(1), RMul(PunctuationDensity(text), FromInt(5)))

\* (segment_chars / avg_char_per_second) * rate_factor
EstimatedDuration(text, avg_char_per_second) ==
    RMul(RDiv(FromInt(Len(text)), avg_char_per_second), RateFactor(text))

RECURSIVE M_EstimateFromEnd(_, _, _)
\* mutant: the running offset is advanced once more than the segment's end
M_EstimateFromEnd(segments, avg_char_per_second, running_offset) ==
    IF segments = <<>> THEN <<>>
    ELSE LET segment == segments[1]
             estimated_duration ==
                 RMul(RDiv(FromInt(Len(segment.text)), avg_char_per_second),
                      RAdd(FromInt(1), RMul(PunctuationDensity(segment.text), FromInt(5))))
             enhanced_segment ==
                 [speaker |-> segment.speaker,
                  text |-> segment.text,
                  startTime |-> running_offset,
                  endTime |-> RAdd(running_offset, estimated_duration)]
         IN  <<enhanced_segment>>
                 \o M_EstimateFromEnd(Tail(segments), avg_char_per_second,
                        RAdd(RAdd(running_offset, estimated_duration), estimated_duration))

RECURSIVE EstimateSegments(_, _, _)
\* the loop of lines 394-415, from running_offset on
EstimateSegments(segments, avg_char_per_second, running_offset) ==
    IF segments = <<>> THEN <<>>
    ELSE LET segment == segments[1]
             estimated_duration == EstimatedDuration(segment.text, avg_char_per_second)
             enhanced_segment ==
                 [speaker |-> segment.speaker,
                  text |-> segment.text,
                  startTime |-> running_offset,
                  endTime |-> RAdd(running_offset, estimated_duration)]
         IN  <<enhanced_segment>>
                 \o EstimateSegments(Tail(segments), avg_char_per_second,
                                     RAdd(running_offset, estimated_duration))

\* running_offset after the loop
RunningOffset(enhanced) ==
    IF enhanced = <<>> THEN Zero ELSE enhanced[Len(enhanced)].endTime

\* mutant: only startTime is rescaled
M_ScaleStartOnly(segment, scaling_factor) ==
    [segment EXCEPT !.startTime = RMul(@, scaling_factor)]

\* segment["startTime"] *= scaling_factor; segment["endTime"] *= scaling_factor
ScaleSegment(segment, scaling_factor) ==
    [segment EXCEPT !.startTime = RMul(@, scaling_factor),
                    !.endTime = RMul(@, scaling_factor)]

ScaleSegments(enhanced, scaling_factor) ==
    [i \in 1..Len(enhanced) |-> ScaleSegment(enhanced[i], scaling_factor)]

-----------------------------------------------------------------------------
(* process_page, lines 423-491: word timing *)

SENTENCE_END == {".", "!", "?"}

\* the length of the run of non-blank characters that text starts with
RECURSIVE WordLen(_)
WordLen(text) ==
    IF text = <<>> \/ Head(text) \in WHITESPACE THEN 0
    ELSE 1 + WordLen(Tail(text))

\* re.findall(r'\S+', segment_text)
RECURSIVE Words(_)
Words(text) ==
    LET rest == LStrip(text)
    IN  IF rest = <<>> THEN <<>>
        ELSE <<SubSeq(rest, 1, WordLen(rest))>>
                 \o Words(SubSeq(rest, WordLen(rest) + 1, Len(rest)))

\* sum(len(word) for word in words_with_punct)
RECURSIVE WordsChars(_)
WordsChars(words) ==
    IF words = <<>> THEN 0 ELSE Len(Head(words)) + WordsChars(Tail(words))

\* mutant: a word takes no time
M_WordDurationZero(word, segment_duration, segment_words_chars) == Zero

\* lines 454-473: segment_duration * word_weight, times 1.3 and times 1.2
WordDuration(word, segment_duration, segment_words_chars) ==
    LET word_weight == Rat(Len(word), segment_words_chars)
        base == RMul(segment_duration, word_weight)
        has_sentence_end_punct == word[Len(word)] \in SENTENCE_END
        is_complex_word == Len(word) > 7
        ended == IF has_sentence_end_punct THEN RMul(base, Rat(13, 10)) ELSE base
    IN  IF is_complex_word THEN RMul(ended, Rat(6, 5)) ELSE ended

\* the loop of lines 452-485 from word i on, current_offset as the loop finds it
RECURSIVE WordTimingsFrom(_, _, _, _)
WordTimingsFrom(words, i, current_offset, segment_duration) ==
    IF i > Len(words) THEN <<>>
    ELSE LET word_time == IF i = 1 THEN RAdd(current_offset, Rat(1, 20)) ELSE current_offset
             word_duration == WordDuration(words[i], segment_duration, WordsChars(words))
         IN  <<[word |-> words[i], time |-> word_time]>>
                 \o WordTimingsFrom(words, i + 1, RAdd(word_time, word_duration),
                                    segment_duration)

\* lines 426-489 for one segment: wordTimings is set when the text has a word
AddWordTimings(segment) ==
    LET words_with_punct == Words(segment.text)
        segment_duration == RSub(segment.endTime, segment.startTime)
    IN  IF words_with_punct = <<>> THEN segment
        ELSE [speaker |-> segment.speaker,
              text |-> segment.text,
              startTime |-> segment.startTime,
              endTime |-> segment.endTime,
              wordTimings |-> WordTimingsFrom(words_with_punct, 1, segment.startTime,
                                              segment_duration)]

\* A ZeroDivisionError inside the try block of lines 378-498: at line 387
\* (zero duration), at line 405 (zero speaking rate) or at line 418 (zero
\* running offset).
TimingRaises(segments, total_duration) ==
    \/ IsZero(total_duration)
    \/ /\ TotalChars(segments) = 0
       /\ segments # <<>>
    \/ LET avg == RDiv(FromInt(TotalChars(segments)), total_duration)
       IN  IsZero(RunningOffset(EstimateSegments(segments, avg, Zero)))

\* enhanced_segments when no exception is raised
EnhancedSegments(segments, total_duration) ==
    LET avg_char_per_second == RDiv(FromInt(TotalChars(segments)), total_duration)
        enhanced == EstimateSegments(segments, avg_char_per_second, Zero)
        scaling_factor == RDiv(total_duration, RunningOffset(enhanced))
        scaled == ScaleSegments(enhanced, scaling_factor)
    IN  [i \in 1..Len(scaled) |-> AddWordTimings(scaled[i])]

\* the value of enhanced_segments at line 503
CalculateTiming(segments, total_duration) ==
    IF TimingRaises(segments, total_duration)
    THEN segments
    ELSE EnhancedSegments(segments, total_duration)

-----------------------------------------------------------------------------
(* The end of process_page on its own, lines 359-508: data holds the segment  *)
(* list of the gateway or of the cache; when the list passes the two checks  *)
(* the synthesis has written a file whose duration sf.info measures.         *)

TimingChars == {"a", ".", " "}

RECURSIVE TextsUpTo(_)
TextsUpTo(n) ==
    IF n = 0 THEN {<<>>}
    ELSE LET shorter == TextsUpTo(n - 1)
         IN  shorter \cup {Append(t, c) : t \in shorter, c \in TimingChars}

TimingTexts == TextsUpTo(MaxTextLen)

RECURSIVE SegmentListsUpTo(_)
SegmentListsUpTo(n) ==
    IF n = 0 THEN {<<>>}
    ELSE LET shorter == SegmentListsUpTo(n - 1)
         IN  shorter \cup {Append(l, Segment(t)) : l \in shorter, t \in TimingTexts}

TimingSegmentLists == {l \in SegmentListsUpTo(MaxSegs) : ReachesSynthesis(l)}

TimingDurations == {Rat(n, 2) : n \in 0..MaxHalfSeconds}

\* "Hello world. This is a test."
HELLO_WORLD ==
    <<"H", "e", "l", "l", "o", " ", "w", "o", "r", "l", "d", ".", " ",
      "T", "h", "i", "s", " ", "i", "s", " ", "a", " ", "t", "e", "s", "t", ".">>

\* "synthesis. a reader!": a word of more than 7 characters that ends a sentence
LONG_WORD ==
    <<"s", "y", "n", "t", "h", "e", "s", "i", "s", ".", " ", "a", " ",
      "r", "e", "a", "d", "e", "r", "!">>

\* every segment list data can hold at line 359
GatewaySegmentLists ==
    SegmentListsUpTo(MaxSegs)
        \cup {<<Segment(HELLO_WORLD)>>, <<Segment(LONG_WORD)>>,
              <<Segment(<<"a">>), Segment(LONG_WORD)>>}

TimingInit ==
    /\ PageIdle
    /\ SynthIdle
    /\ SplitIdle
    /\ PipelineIdle
    /\ t_pc = "input"
    /\ t_segments \in GatewaySegmentLists
    /\ t_duration \in TimingDurations \cup {FromInt(3)}
    /\ t_out = None
    /\ t_warning = FALSE

\* lines 359-367: the page is given up before the synthesis
RejectSegments ==
    /\ t_pc = "input"
    /\ ~ReachesSynthesis(t_segments)
    /\ t_pc' = "rejected"
    /\ t_out' = Some(IF t_segments = <<>>
                     THEN [success |-> FALSE, error |-> "No segments returned from Groq API"]
                     ELSE [success |-> FALSE, error |-> "Combined text is empty"])
    /\ UNCHANGED <<t_segments, t_duration, t_warning>>
    /\ UNCHANGED notTimingVars

\* lines 378-501 of process_page, on a written audio file of the given duration
ReconstructTiming ==
    /\ t_pc = "input"
    /\ ReachesSynthesis(t_segments)
    /\ t_pc' = "done"
    /\ t_out' = Some(CalculateTiming(t_segments, t_duration))
    /\ t_warning' = TimingRaises(t_segments, t_duration)
    /\ UNCHANGED <<t_segments, t_duration>>
    /\ UNCHANGED notTimingVars

TimingNext ==
    \/ ReconstructTiming
    \/ RejectSegments

SpecTiming == TimingInit /\ [][TimingNext]_vars

-----------------------------------------------------------------------------
(* The segmentation model: an external service.  A response is what         *)
(* groq_client.chat.completions.create does on one call.                     *)

SegmentPayloads ==
    { <<>>,
      <<Segment(<<" ">>)>>,
      <<Segment(<<"a", ".">>)>>,
      <<Segment(<<"a">>), Segment(<<>>)>> }

GroqFailures == {"transport_error", "malformed_json", "not_a_dict", "missing_segments"}

GroqResponses ==
    {[kind |-> k, segments |-> <<>>] : k \in GroqFailures}
        \cup {[kind |-> "json_object", segments |-> p] : p \in SegmentPayloads}

IsEmptyDict(d) == DOMAIN d = {}

\* k in d
HasKey(d, k) == ~IsEmptyDict(d) /\ k \in DOMAIN d

\* data.get("segments", [])
GetSegments(data) == IF HasKey(data, "segments") THEN data.segments ELSE <<>>

\* lines 153-177: the parsed dict, or {} on any error
call_groq_api(response, page_number) ==
    IF response.kind = "json_object"
    THEN [page |-> page_number, segments |-> response.segments]
    ELSE EmptyDict

\* line 186: data and isinstance(data, dict) and "segments" in data
WellFormed(data) == ~IsEmptyDict(data) /\ HasKey(data, "segments")

\* mutant: the empty result of the gateway passes for data
M_NoDataNever(data) == FALSE

\* lines 332 and 352: not data
NoData(data) == IsEmptyDict(data)

\* mutant: a page of exactly 100 characters is rejected too
M_TooShortInclusive(stripped_text) == Len(stripped_text) <= MIN_PAGE_CHARS

\* line 305: len(stripped_text) < 100
TooShort(stripped_text) == Len(stripped_text) < MIN_PAGE_CHARS

\* mutant: the loop takes one turn more than attempts
M_OneMoreAttempt(attempt, attempts) == attempt > attempts

\* line 184: for attempt in range(1, attempts + 1) has no further turn
LastAttempt(attempt, attempts) == attempt >= attempts

-----------------------------------------------------------------------------
(* process_page *)

\* k in d, for a dict held as a function to None or <<value>>
Has(d, k) == d[k] # None

\* mutant: d.setdefault(k, v), an entry is never replaced
M_DictPutIfAbsent(d, k, v) == IF d[k] # None THEN d ELSE [d EXCEPT ![k] = Some(v)]

\* mutant: the assignment is lost
M_DictPutDropped(d, k, v) == d

\* d[k] = v
DictPut(d, k, v) == [d EXCEPT ![k] = Some(v)]

Failure(error) == [success |-> FALSE, error |-> error]

Success(filename, segments) ==
    [success |-> TRUE, filename |-> filename, segments |-> segments,
     timing |-> "word_aligned"]

RECURSIVE Frames(_)
Frames(audio) == IF audio = <<>> THEN 0 ELSE Head(audio)[3] + Frames(Tail(audio))

\* sf.info(wav_filename).duration
AudioDuration(audio) == Rat(Frames(audio), SAMPLE_RATE)

MyKey(t) == CacheKey(loc[t].hash, loc[t].page)

Finish(t, locals) ==
    /\ pc' = [pc EXCEPT ![t] = "done"]
    /\ loc' = [loc EXCEPT ![t] = locals]

\* lines 359-367, once data holds a segment list
CheckSegments(t, locals) ==
    LET segments == GetSegments(locals.data)
        with_segments == [locals EXCEPT !.segments = segments]
    IN  IF segments = <<>>
        THEN Finish(t, [with_segments EXCEPT
                 !.result = Some(Failure("No segments returned from Groq API"))])
        ELSE IF Strip(CombinedText(segments)) = <<>>
        THEN Finish(t, [with_segments EXCEPT
                 !.result = Some(Failure("Combined text is empty"))])
        ELSE /\ pc' = [pc EXCEPT ![t] = "synth"]
             /\ loc' = [loc EXCEPT ![t] = with_segments]

\* the gateway has already returned a segment list for this content, to a
\* call that is over or to one that is still running
GatewayHasReturned(stripped_text) ==
    /\ ~TooShort(stripped_text)
    /\ \/ Has(segments_cache, ContentHash(stripped_text))
       \/ \E u \in Threads :
              /\ pc[u] \in {"store", "cached_store"}
              /\ loc[u].hash = ContentHash(stripped_text)
              /\ WellFormed(loc[u].data)

\* lines 298-316: validation, the cache key, os.path.exists(wav_filename)
ProcessPageStart(t, page_text, page_number) ==
    /\ pc[t] = "idle"
    /\ started < MaxRequests
    /\ started' = started + 1
    /\ LET stripped_text == Strip(page_text)
           locals == [IdleLocals EXCEPT !.len = Len(stripped_text), !.page = page_number,
                                        !.late = GatewayHasReturned(stripped_text)]
       IN  IF stripped_text = <<>>
           THEN Finish(t, [locals EXCEPT !.result = Some(Failure("Page text is empty"))])
           ELSE IF TooShort(stripped_text)
           THEN Finish(t, [locals EXCEPT !.result = Some(Failure("Page text is too short"))])
           ELSE LET content_hash == ContentHash(stripped_text)
                IN  /\ loc' = [loc EXCEPT ![t] = [locals EXCEPT !.hash = content_hash]]
                    /\ pc' = [pc EXCEPT ![t] =
                          IF Has(files, CacheKey(content_hash, page_number))
                          THEN "cached_lookup" ELSE "lookup"]
    /\ UNCHANGED <<segments_cache, files, responses>>
    /\ UNCHANGED notPageVars

\* lines 319-331: the audio exists; are the segments cached?
CachedLookup(t) ==
    /\ pc[t] = "cached_lookup"
    /\ IF Has(segments_cache, loc[t].hash)
       THEN Finish(t, [loc[t] EXCEPT
                !.result = Some(Success(MyKey(t), segments_cache[loc[t].hash][1]))])
       ELSE /\ pc' = [pc EXCEPT ![t] = "cached_groq"]
            /\ loc' = [loc EXCEPT ![t].attempt = 1]
    /\ UNCHANGED <<segments_cache, files, started, responses>>
    /\ UNCHANGED notPageVars

\* lines 344-351 (and 359-367 on a hit): no audio yet; are the segments cached?
Lookup(t) ==
    /\ pc[t] = "lookup"
    /\ IF Has(segments_cache, loc[t].hash)
       THEN CheckSegments(t, [loc[t] EXCEPT
                !.data = [segments |-> segments_cache[loc[t].hash][1]]])
       ELSE /\ pc' = [pc EXCEPT ![t] = "groq"]
            /\ loc' = [loc EXCEPT ![t].attempt = 1]
    /\ UNCHANGED <<segments_cache, files, started, responses>>
    /\ UNCHANGED notPageVars

\* lines 184-191: one turn of the retry loop of get_audio_book_segment, with
\* its call of the model and, on failure, its sleep
GroqAttempt(t, response) ==
    /\ pc[t] \in {"groq", "cached_groq"}
    /\ LET data == call_groq_api(response, loc[t].page)
           returned == IF pc[t] = "groq" THEN "store" ELSE "cached_store"
           called == [loc[t] EXCEPT
                         !.calls = @ + 1,
                         !.fails = IF response.kind = "json_object" THEN @ ELSE @ + 1,
                         !.first = IF response.kind = "json_object" /\ @ = None
                                   THEN Some(<<loc[t].calls + 1, response.segments>>)
                                   ELSE @]
       IN  IF WellFormed(data)
           THEN /\ loc' = [loc EXCEPT ![t] = [called EXCEPT !.data = data]]
                /\ pc' = [pc EXCEPT ![t] = returned]
           ELSE LET slept == [called EXCEPT !.sleeps = @ + 1]
                IN  IF LastAttempt(loc[t].attempt, RETRY_LIMIT)
                    THEN /\ loc' = [loc EXCEPT ![t] = [slept EXCEPT !.data = EmptyDict]]
                         /\ pc' = [pc EXCEPT ![t] = returned]
                    ELSE /\ loc' = [loc EXCEPT ![t] = [slept EXCEPT !.attempt = @ + 1]]
                         /\ UNCHANGED pc
    /\ UNCHANGED <<segments_cache, files, started, responses>>
    /\ UNCHANGED notPageVars

\* lines 332-342: the audio exists and the gateway has returned
CachedStore(t) ==
    /\ pc[t] = "cached_store"
    /\ IF NoData(loc[t].data) \/ ~HasKey(loc[t].data, "segments")
       THEN /\ Finish(t, [loc[t] EXCEPT
                   !.result = Some(Failure("Failed to get segments from Groq API"))])
            /\ UNCHANGED segments_cache
       ELSE /\ segments_cache' = DictPut(segments_cache, loc[t].hash, GetSegments(loc[t].data))
            /\ Finish(t, [loc[t] EXCEPT
                   !.stored = TRUE,
                   !.result = Some(Success(MyKey(t), GetSegments(loc[t].data)))])
    /\ UNCHANGED <<files, started, responses>>
    /\ UNCHANGED notPageVars

\* lines 352-367: no audio yet and the gateway has returned
Store(t) ==
    /\ pc[t] = "store"
    /\ IF NoData(loc[t].data)
       THEN /\ Finish(t, [loc[t] EXCEPT
                   !.result = Some(Failure("Failed to get data from Groq API"))])
            /\ UNCHANGED segments_cache
       ELSE /\ segments_cache' = DictPut(segments_cache, loc[t].hash, GetSegments(loc[t].data))
            /\ CheckSegments(t, [loc[t] EXCEPT !.stored = TRUE])
    /\ UNCHANGED <<files, started, responses>>
    /\ UNCHANGED notPageVars

\* lines 371-375: synthesize_audio_parallel(combined_text, wav_filename)
Synthesize(t, token_count, outcomes) ==
    /\ pc[t] = "synth"
    /\ LET old_file == files[MyKey(t)]
           r == synthesize_audio_parallel(old_file, token_count, outcomes)
       IN  /\ files' = [files EXCEPT ![MyKey(t)] = r.file]
           /\ loc' = [loc EXCEPT ![t].synth = r.status, ![t].wrote = (r.status = "saved")]
           /\ pc' = [pc EXCEPT ![t] = IF r.status = "raised" THEN "raised" ELSE "timing"]
    /\ UNCHANGED <<segments_cache, started, responses>>
    /\ UNCHANGED notPageVars

\* mutant: the timing fields are written into the dicts of the raw list
M_TimedInPlace(segments, total_duration) == CalculateTiming(segments, total_duration)

\* lines 391-491: the list object `segments` after the timing block has run on
\* it.  The block reads segment["text"] and segment["speaker"] and writes
\* startTime, endTime and wordTimings only to the dicts it built at lines
\* 407-412.
SegmentsAfterTiming(segments, total_duration) == segments

\* lines 348 and 356-357: `segments` is the list object the cache holds
SharesCachedList(t) == segments_cache[loc[t].hash] = Some(loc[t].segments)

\* lines 378-508: sf.info on the file, the timing, the result
Timing(t) ==
    /\ pc[t] = "timing"
    /\ LET enhanced_segments ==
               IF Has(files, MyKey(t))
               THEN CalculateTiming(loc[t].segments, AudioDuration(files[MyKey(t)][1]))
               ELSE loc[t].segments
       IN  /\ Finish(t, [loc[t] EXCEPT !.result = Some(Success(MyKey(t), enhanced_segments))])
           /\ responses' = IF Has(responses, MyKey(t)) THEN responses
                            ELSE DictPut(responses, MyKey(t), enhanced_segments)
    /\ segments_cache' =
          IF Has(files, MyKey(t)) /\ SharesCachedList(t)
          THEN [segments_cache EXCEPT ![loc[t].hash] =
                   Some(SegmentsAfterTiming(loc[t].segments,
                                            AudioDuration(files[MyKey(t)][1])))]
          ELSE segments_cache
    /\ UNCHANGED <<files, started>>
    /\ UNCHANGED notPageVars

\* the call is over: its result went to the caller, or its exception did
Return(t) ==
    /\ pc[t] \in {"done", "raised"}
    /\ pc' = [pc EXCEPT ![t] = "idle"]
    /\ loc' = [loc EXCEPT ![t] = IdleLocals]
    /\ UNCHANGED <<segments_cache, files, started, responses>>
    /\ UNCHANGED notPageVars

\* no call of process_page is under way
NoCallRunning == \A t \in Threads : pc[t] = "idle"

\* a request that arrives when the one before it has been answered
SerialStart(t, page_text, page_number) ==
    /\ NoCallRunning
    /\ ProcessPageStart(t, page_text, page_number)

\* The module has just been loaded: no call is running, the segment cache is
\* empty, and the cache directory holds what earlier runs of the day left.
Init ==
    /\ segments_cache = NoSegments
    /\ files \in [CacheKeys -> {None, Some(OldAudio)}]
    /\ pc = [t \in Threads |-> "idle"]
    /\ loc = [t \in Threads |-> IdleLocals]
    /\ started = 0
    /\ responses = NoFiles
    /\ SynthIdle
    /\ TimingIdle
    /\ SplitIdle
    /\ PipelineIdle

Next ==
    \/ \E t \in Threads, page_text \in PageTexts, page_number \in PageNumbers :
          SerialStart(t, page_text, page_number)
    \/ \E t \in Threads : CachedLookup(t)
    \/ \E t \in Threads : Lookup(t)
    \/ \E t \in Threads, response \in GroqResponses : GroqAttempt(t, response)
    \/ \E t \in Threads : CachedStore(t)
    \/ \E t \in Threads : Store(t)
    \/ \E t \in Threads, token_count \in PageTokenCounts :
          \E outcomes \in [1..Max(1, Len(split_text_by_tokens(token_count, TTS_MAX_TOKENS)))
                              -> TTSOutcomes] :
              Synthesize(t, token_count, outcomes)
    \/ \E t \in Threads : Timing(t)
    \/ \E t \in Threads : Return(t)

Spec == Init /\ [][Next]_vars

-----------------------------------------------------------------------------
(* Requests that overlap: the server handles each request on a thread of its *)
(* own, and two clients ask for pages of the same content.                   *)

ConcurrentText == Rep("a", MIN_PAGE_CHARS)

\* a request that arrives whatever the other threads are doing
ConcurrentStart(t, page_number) == ProcessPageStart(t, ConcurrentText, page_number)

ConcurrentInit ==
    /\ segments_cache = NoSegments
    /\ files \in {f \in [CacheKeys -> {None, Some(OldAudio)}] :
                     \A k \in CacheKeys : k[1] # ContentHash(ConcurrentText) => f[k] = None}
    /\ pc = [t \in Threads |-> "idle"]
    /\ loc = [t \in Threads |-> IdleLocals]
    /\ started = 0
    /\ responses = NoFiles
    /\ SynthIdle
    /\ TimingIdle
    /\ SplitIdle
    /\ PipelineIdle

ConcurrentNext ==
    \/ \E t \in Threads, page_number \in PageNumbers : ConcurrentStart(t, page_number)
    \/ \E t \in Threads : CachedLookup(t)
    \/ \E t \in Threads : Lookup(t)
    \/ \E t \in Threads, response \in GroqResponses : GroqAttempt(t, response)
    \/ \E t \in Threads : CachedStore(t)
    \/ \E t \in Threads : Store(t)
    \/ \E t \in Threads, token_count \in PageTokenCounts :
          \E outcomes \in [1..Max(1, Len(split_text_by_tokens(token_count, TTS_MAX_TOKENS)))
                              -> TTSOutcomes] :
              Synthesize(t, token_count, outcomes)
    \/ \E t \in Threads : Timing(t)
    \/ \E t \in Threads : Return(t)

SpecConcurrent == ConcurrentInit /\ [][ConcurrentNext]_vars

-----------------------------------------------------------------------------
(* get_audio_book_segment on its own: a call of process_page has passed the  *)
(* validation and both cache lookups and enters the retry loop.              *)

GatewayInit ==
    /\ segments_cache = NoSegments
    /\ files \in [CacheKeys -> {None, Some(OldAudio)}]
    /\ \E content_hash \in ContentHashes, page_number \in PageNumbers :
          /\ pc = [t \in Threads |->
                    IF t # 1 THEN "idle"
                    ELSE IF Has(files, CacheKey(content_hash, page_number))
                    THEN "cached_groq" ELSE "groq"]
          /\ loc = [t \in Threads |->
                    IF t # 1 THEN IdleLocals
                    ELSE [IdleLocals EXCEPT !.len = MIN_PAGE_CHARS, !.hash = content_hash,
                                            !.page = page_number, !.attempt = 1]]
    /\ started = 1
    /\ responses = NoFiles
    /\ SynthIdle
    /\ TimingIdle
    /\ SplitIdle
    /\ PipelineIdle

GatewayNext == \E t \in Threads, response \in GroqResponses : GroqAttempt(t, response)

\* the loop is straight-line code: a turn that can be taken is taken
SpecGateway == GatewayInit /\ [][GatewayNext]_vars /\ WF_vars(GatewayNext)


-----------------------------------------------------------------------------
(* Claims about synthesize_audio_parallel, checked under SpecSynth *)

ParallelDone == s_pc = "done" /\ Len(s_chunks) > 0
ChunkAudio(i) == << <<i, 1, 12000>>, <<i, 2, 12000>> >>
SpeechChunks == {i \in 1..Len(s_chunks) : s_outcome[i] = "speech"}

RECURSIVE AscendingAudio(_)
\* the buffers of the chunks 1..k that produced speech, in ascending chunk index
AscendingAudio(k) ==
    IF k = 0 THEN <<>>
    ELSE AscendingAudio(k - 1) \o (IF s_outcome[k] = "speech" THEN ChunkAudio(k) ELSE <<>>)

\* C1: whatever the order in which the workers put their results on the queue,
\* the audio written is the per-chunk buffers in ascending chunk index; it
\* depends on the chunks' TTS outcomes alone.
C1_OrderInvariant ==
    (ParallelDone /\ s_status = "saved") =>
        s_file = Some(AscendingAudio(Len(s_chunks)))

\* C1 witness: workers completed out of submission order and the audio of
\* three speaking chunks was written.
C1_Witness ==
    /\ ParallelDone
    /\ s_shuffled
    /\ Cardinality(SpeechChunks) >= 3
    /\ s_status = "saved"
    /\ s_file = Some(AscendingAudio(Len(s_chunks)))

RECURSIVE NonNullResults(_)
\* the non-null entries of results[1..k], in index order
NonNullResults(k) ==
    IF k = 0 THEN <<>>
    ELSE NonNullResults(k - 1) \o (IF s_results[k] = None THEN <<>> ELSE s_results[k][1])

\* C2: a chunk without audio or with an exception is recorded as null and
\* every other chunk is still synthesized; if some chunk produced audio the
\* file holds exactly the non-null chunk buffers in ascending chunk index.
C2_NullChunksSkipped ==
    ParallelDone =>
        /\ \A i \in 1..Len(s_chunks) :
              /\ s_outcome[i] \in TTSOutcomes
              /\ s_outcome[i] # "speech" => s_results[i] = None
              /\ s_outcome[i] = "speech" => s_results[i] = Some(ChunkAudio(i))
        /\ SpeechChunks # {} =>
              /\ s_status = "saved"
              /\ s_writes = 1
              /\ s_file = Some(NonNullResults(Len(s_chunks)))

\* C2 witness: three chunks, the second raised, the file is chunk 1 then chunk 3.
C2_Witness ==
    /\ ParallelDone
    /\ Len(s_chunks) = 3
    /\ s_outcome = <<"speech", "exception", "speech">>
    /\ s_file = Some(ChunkAudio(1) \o ChunkAudio(3))

\* C3: when every dispatched chunk yields null the call ends on its error
\* branch and the output file is neither created nor overwritten.
C3_AllNullWritesNothing ==
    (ParallelDone /\ SpeechChunks = {}) =>
        /\ s_status = "no_audio_error"
        /\ s_writes = 0
        /\ s_file = s_before

\* C3 witness: all chunks null, once with no file before and once with one.
C3_Witness ==
    /\ ParallelDone
    /\ Len(s_chunks) >= 2
    /\ SpeechChunks = {}
    /\ \E i, j \in 1..Len(s_chunks) : s_outcome[i] = "no_audio" /\ s_outcome[j] = "exception"
    /\ s_before = Some(OldAudio)
    /\ s_file = Some(OldAudio)

-----------------------------------------------------------------------------
(* Claims about process_page, checked under Spec *)

Done(t) == pc[t] = "done"
Result(t) == loc[t].result[1]
InGateway(t) == pc[t] \in {"groq", "cached_groq"}
GatewayReturned(t) == pc[t] \in {"store", "cached_store"}
NothingStarted(t) ==
    /\ loc[t].synth = "not_run"
    /\ ~loc[t].wrote
    /\ ~loc[t].stored

\* C4 as stated: when synthesis produced no audio at all for the page (every
\* chunk null, or no buffer on the direct path), process_page returns a
\* failure result and not a success result.
C4_NoAudioIsFailure ==
    \A t \in Threads :
        (Done(t) /\ loc[t].synth \in {"no_audio_error", "no_audio_warning"}) =>
            Result(t).success = FALSE

\* C4 witness: a call whose synthesis wrote nothing has returned success with
\* the name of a file that does not exist.
C4_SuccessWithoutAudio ==
    \E t \in Threads :
        /\ Done(t)
        /\ loc[t].synth = "no_audio_error"
        /\ ~loc[t].wrote
        /\ ~Has(files, MyKey(t))
        /\ Result(t) = Success(MyKey(t), loc[t].segments)

\* C6: once all RETRY_LIMIT attempts have failed the gateway has returned the
\* empty result, and process_page answers with a failure in its next step: no
\* synthesis was started, no audio was written, no segment cache entry added.
C6_ExhaustedRetriesFail ==
    \A t \in Threads :
        loc[t].fails >= RETRY_LIMIT =>
            /\ loc[t].calls = RETRY_LIMIT
            /\ GatewayReturned(t) \/ Done(t)
            /\ IsEmptyDict(loc[t].data)
            /\ NothingStarted(t)
            /\ Done(t) =>
                   Result(t) \in {Failure("Failed to get data from Groq API"),
                                  Failure("Failed to get segments from Groq API")}

\* C6 witness: three failed attempts, each followed by its sleep, then the
\* failure result, with no audio file and no cached segments for the page.
C6_Witness ==
    \E t \in Threads :
        /\ Done(t)
        /\ loc[t].fails = RETRY_LIMIT
        /\ loc[t].sleeps = RETRY_LIMIT
        /\ Result(t) = Failure("Failed to get data from Groq API")
        /\ ~Has(files, MyKey(t))
        /\ ~Has(segments_cache, loc[t].hash)

\* C7: a page whose stripped length is 0 is answered "Page text is empty", one
\* of stripped length 1..99 "Page text is too short", in both cases without a
\* model call, a sleep, a synthesis or a write to either cache; a page of
\* stripped length 100 or more never gets either answer.
C7_ShortPagesRejected ==
    \A t \in Threads :
        Done(t) =>
            /\ loc[t].len = 0 => Result(t) = Failure("Page text is empty")
            /\ (loc[t].len > 0 /\ loc[t].len < MIN_PAGE_CHARS) =>
                   Result(t) = Failure("Page text is too short")
            /\ loc[t].len < MIN_PAGE_CHARS =>
                   /\ loc[t].calls = 0
                   /\ loc[t].sleeps = 0
                   /\ NothingStarted(t)
            /\ loc[t].len >= MIN_PAGE_CHARS =>
                   Result(t) \notin {Failure("Page text is empty"),
                                     Failure("Page text is too short")}

\* C7 witness: the last request of the run, a page of 99 characters after
\* stripping, was answered "Page text is too short" without a model call.
C7_Witness ==
    \E t \in Threads :
        /\ Done(t)
        /\ loc[t].len = MIN_PAGE_CHARS - 1
        /\ Result(t) = Failure("Page text is too short")
        /\ loc[t].calls = 0
        /\ started = MaxRequests

\* the call of t was answered from the two caches (lines 319-328)
ServedFromCache(t) ==
    /\ Done(t)
    /\ Result(t).success
    /\ loc[t].synth = "not_run"
    /\ loc[t].calls = 0

\* C13 as stated: a call that finds the audio file and the cached segments is
\* answered without a model call and without a synthesis, and its segments
\* are those of the first response for the page, timing fields included.
C13_CachedCarriesTiming ==
    \A t \in Threads :
        ServedFromCache(t) =>
            /\ NothingStarted(t)
            /\ Has(responses, MyKey(t)) => Result(t).segments = responses[MyKey(t)][1]

\* C13 witness: the first response for the page carried startTime, endTime
\* and wordTimings, the response served from the caches carries none of them.
C13_CachedUntimed ==
    \E t \in Threads :
        /\ ServedFromCache(t)
        /\ Has(responses, MyKey(t))
        /\ "wordTimings" \in DOMAIN responses[MyKey(t)][1][1]
        /\ "startTime" \in DOMAIN responses[MyKey(t)][1][1]
        /\ DOMAIN Result(t).segments[1] = {"speaker", "text"}
        /\ Result(t).segments = segments_cache[loc[t].hash][1]

\* the call of t found the audio file but no cached segments (lines 330-342)
OnAudioOnlyPath(t) == pc[t] \in {"cached_groq", "cached_store"}

C14_Inv ==
    \A t \in Threads :
        OnAudioOnlyPath(t) =>
            /\ Has(files, MyKey(t))
            /\ loc[t].calls <= RETRY_LIMIT
            /\ pc[t] = "cached_store" => loc[t].calls >= 1
            /\ NothingStarted(t)

C14_Step ==
    \A t \in Threads :
        (OnAudioOnlyPath(t) /\ loc'[t] # loc[t]) =>
            /\ files' = files
            /\ pc[t] = "cached_groq" =>
                   /\ pc'[t] \in {"cached_groq", "cached_store"}
                   /\ segments_cache' = segments_cache
            /\ pc[t] = "cached_store" =>
                   /\ pc'[t] = "done"
                   /\ loc'[t].calls = loc[t].calls
                   /\ loc'[t].synth = "not_run"
                   /\ IF WellFormed(loc[t].data)
                      THEN /\ segments_cache' =
                                 [segments_cache EXCEPT ![loc[t].hash] = Some(loc[t].data.segments)]
                           /\ loc'[t].result =
                                 Some(Success(MyKey(t), loc[t].data.segments))
                      ELSE /\ segments_cache' = segments_cache
                           /\ loc'[t].result =
                                 Some(Failure("Failed to get segments from Groq API"))

\* C14: a call that finds the audio file but no cached segments invokes the
\* gateway once, with at most RETRY_LIMIT model calls, and neither synthesizes
\* nor writes a file; when the gateway succeeds its segments are stored in the
\* segment cache and returned, when it fails the result is a failure and the
\* segment cache is as it was.
C14_AudioOnlyPath == []C14_Inv /\ [][C14_Step]_vars

\* C14 witness: the file was there, the gateway succeeded on its second model
\* call, and the segments it gave are in the cache and in the result.
C14_Witness ==
    \E t \in Threads :
        /\ Done(t)
        /\ loc[t].calls = 2
        /\ Has(files, MyKey(t))
        /\ loc[t].synth = "not_run"
        /\ loc[t].stored
        /\ Result(t) = Success(MyKey(t), <<Segment(<<"a", ".">>)>>)
        /\ segments_cache[loc[t].hash] = Some(<<Segment(<<"a", ".">>)>>)

\* the call of t is over and returned a result with success false
ReturnedFailure(t) ==
    /\ pc[t] = "done"
    /\ loc[t].result # None
    /\ ~loc[t].result[1].success

\* C23 as stated: a call that returns a failure result has not changed the
\* segment cache, and the cache never holds an empty segment list.
C23_FailureLeavesCache ==
    /\ \A t \in Threads : ReturnedFailure(t) => ~loc[t].stored
    /\ \A h \in ContentHashes :
          Has(segments_cache, h) => segments_cache[h][1] # <<>>

\* C23 witness: the model answered the first call of the run with an empty
\* segment list; the call stored the list in the empty cache and then
\* returned the failure of line 361.
C23_EmptyListCached ==
    \E t \in Threads :
        /\ started = 1
        /\ ReturnedFailure(t)
        /\ loc[t].result[1].error = "No segments returned from Groq API"
        /\ loc[t].calls >= 1
        /\ loc[t].stored
        /\ segments_cache[loc[t].hash] = Some(<<>>)

-----------------------------------------------------------------------------
(* Claims about overlapping calls of process_page, checked under SpecConcurrent *)

\* C15 as stated: a call that starts once the gateway has returned a segment
\* list for its content, whatever its page number and whether or not the
\* audio exists, never invokes the segmentation model.
C15_NeverCallsModelAgain ==
    \A t \in Threads : loc[t].late => loc[t].calls = 0

\* C15 witness: the gateway had returned the segments to one call; a second
\* call for the same content started before the first stored them, missed the
\* segment cache and called the model itself.
C15_LateCallInvokesModel ==
    \E t, u \in Threads :
        /\ t # u
        /\ loc[t].late
        /\ loc[t].calls >= 1
        /\ loc[u].stored
        /\ loc[u].hash = loc[t].hash

\* a synthesis of t writes the file of its cache key in this step
WritesFile(t) == loc'[t].wrote /\ ~loc[t].wrote

\* C16 as stated: across any interleaving of calls, also of overlapping calls
\* for the same page, no synthesis writes an artifact file that exists: the
\* file is created once and never rewritten.
C16_ArtifactWrittenOnce ==
    [][\A t \in Threads : WritesFile(t) => ~Has(files, MyKey(t))]_vars

\* C16 witness: two overlapping calls for the same page have both written
\* the file of the one cache key.
C16_WrittenTwice ==
    \E t, u \in Threads :
        /\ t # u
        /\ loc[t].wrote
        /\ loc[u].wrote
        /\ loc[t].hash = loc[u].hash
        /\ loc[t].page = loc[u].page

\* t has missed the segment cache, the model has answered its call with a
\* segment list, and t has not executed its store yet
HoldsUnstoredList(t) ==
    /\ pc[t] \in {"store", "cached_store"}
    /\ WellFormed(loc[t].data)
    /\ loc[t].calls >= 1

\* t executes its store in this step
Stores(t) == HoldsUnstoredList(t) /\ pc'[t] # pc[t]

\* C22: the check-then-insert of the segment cache is not atomic.  A call
\* that missed the cache stores the list of its own model call whatever the
\* cache holds by then, so of two overlapping calls for the same content the
\* later store overwrites the earlier; the interleaving in which both miss
\* and both invoke the model before either stores is C22_BothMissBothInvoke.
C22_LaterStoreOverwrites ==
    [][\A t \in Threads :
          Stores(t) => segments_cache'[loc[t].hash] = Some(GetSegments(loc[t].data))]_vars

\* C22 witness: from an empty cache two calls for the same content have both
\* missed the segment cache and both been answered by the model, with
\* different lists, and neither has stored its list.
C22_BothMissBothInvoke ==
    \E t, u \in Threads :
        /\ t # u
        /\ HoldsUnstoredList(t) /\ pc[t] = "store"
        /\ HoldsUnstoredList(u) /\ pc[u] = "store"
        /\ loc[t].hash = loc[u].hash
        /\ ~Has(segments_cache, loc[t].hash)
        /\ segments_cache = NoSegments
        /\ GetSegments(loc[t].data) # GetSegments(loc[u].data)

-----------------------------------------------------------------------------
(* Claims about get_audio_book_segment, checked under SpecGateway *)

\* the first well-formed response came on attempt k and carried these segments
FirstWellFormed(t) == loc[t].first[1]

C5_Safe ==
    \A t \in Threads :
        /\ loc[t].calls <= RETRY_LIMIT
        /\ loc[t].first # None =>
               /\ GatewayReturned(t)
               /\ FirstWellFormed(t)[1] <= RETRY_LIMIT
               /\ loc[t].calls = FirstWellFormed(t)[1]
               /\ loc[t].sleeps = FirstWellFormed(t)[1] - 1
               /\ loc[t].data = [page |-> loc[t].page, segments |-> FirstWellFormed(t)[2]]

\* C5: the gateway never makes more than RETRY_LIMIT model calls and always
\* returns; when the first well-formed response comes on attempt k it returns
\* that response after exactly k calls and exactly k - 1 sleeps.
C5_BoundedRetry ==
    /\ []C5_Safe
    /\ <>(\A t \in Threads : ~InGateway(t))

\* C5 witness: two failed attempts, then a well-formed response on the third,
\* returned after three calls and two sleeps.
C5_Witness ==
    \E t \in Threads :
        /\ GatewayReturned(t)
        /\ loc[t].first # None
        /\ FirstWellFormed(t)[1] = RETRY_LIMIT
        /\ loc[t].calls = RETRY_LIMIT
        /\ loc[t].sleeps = RETRY_LIMIT - 1
        /\ loc[t].fails = RETRY_LIMIT - 1
        /\ loc[t].data.segments = FirstWellFormed(t)[2]

\* the call took the split-and-dispatch path and has its chunks
OnParallelPath == s_pc \in {"submit", "wait", "collect", "merge"} \/ ParallelDone

\* chunk indices of the results on the queue
QueuedIndices == {s_queue[i][1] : i \in 1..Len(s_queue)}

\* ceil(n / max_tokens) chunks that tile 1..n in order, each of at most
\* max_tokens tokens and all but the last of exactly max_tokens
SplitShape(chunks, n, max_tokens) ==
    LET total == Len(chunks)
    IN  /\ total * max_tokens >= n
        /\ (total - 1) * max_tokens < n \/ total = 0
        /\ \A k \in 1..total :
              /\ count_tokens(chunks[k]) >= 1
              /\ count_tokens(chunks[k]) <= max_tokens
              /\ k < total => count_tokens(chunks[k]) = max_tokens
              /\ chunks[k].first = (IF k = 1 THEN 1 ELSE chunks[k - 1].last + 1)
        /\ total > 0 => chunks[total].last = n

Reassembling == s_pc \in {"collect", "merge"} \/ ParallelDone

\* at most min(MAX_WORKERS, N) chunks are in a worker, no chunk is in a worker
\* or on the queue twice, and the reassembly only runs when every chunk has
\* been taken by a worker and has left it with a result
C19_PoolInvariant ==
    OnParallelPath =>
        /\ Cardinality(s_running) <= MAX_WORKERS
        /\ Cardinality(s_running) <= Len(s_chunks)
        /\ s_running \cap QueuedIndices = {}
        /\ ~Reassembling =>
              /\ Cardinality(QueuedIndices) = Len(s_queue)
              /\ s_running \cup QueuedIndices = 1..s_started
        /\ Reassembling =>
              /\ s_started = Len(s_chunks)
              /\ s_running = {}
              /\ \A i \in 1..Len(s_chunks) : s_outcome[i] # "pending"
        /\ s_pc = "wait" /\ s_started = Len(s_chunks) /\ s_running = {} =>
              /\ QueuedIndices = 1..Len(s_chunks)
              /\ Len(s_queue) = Len(s_chunks)

\* C19: during a parallel synthesis of N chunks at most min(MAX_WORKERS, N)
\* chunks are synthesized at the same time, every chunk is eventually
\* processed exactly once, and the reassembly starts only after all N workers
\* have finished.
C19_BoundedPool ==
    /\ []C19_PoolInvariant
    /\ (s_pc = "submit") ~> (ParallelDone /\ \A i \in 1..Len(s_chunks) : s_outcome[i] # "pending")

\* C19 witness: five chunks are submitted, MAX_WORKERS of them are in a worker
\* and the fifth waits for a free one.
C19_Witness ==
    /\ Len(s_chunks) = MAX_WORKERS + 1
    /\ s_submitted = MAX_WORKERS + 1
    /\ s_started = MAX_WORKERS
    /\ Cardinality(s_running) = MAX_WORKERS

\* the call synthesizes on the calling thread, or has done so
OnDirectPath == s_pc = "direct" \/ (s_pc = "done" /\ ~ParallelDone)

\* C20: the text is synthesized directly on the calling thread, with no chunk
\* split and no worker pool, exactly when it has at most TTS_MAX_TOKENS = 100
\* tokens; a text of 101 tokens or more is always split and dispatched.
C20_DirectIffShort ==
    s_pc # "start" =>
        /\ OnDirectPath <=> s_tokens <= 100
        /\ OnParallelPath <=> s_tokens >= 101
        /\ OnDirectPath =>
              /\ s_chunks = <<>>
              /\ s_submitted = 0 /\ s_started = 0
              /\ s_running = {} /\ s_queue = <<>>
        /\ OnParallelPath =>
              /\ Len(s_chunks) >= 2
              /\ s_pc \in {"collect", "merge", "done"} => s_started = Len(s_chunks)

\* C20 witness: a text of exactly 100 tokens has been synthesized directly and
\* its audio saved, with no chunk and no worker.
C20_Witness ==
    /\ s_tokens = 100
    /\ s_pc = "done"
    /\ s_status = "saved"
    /\ s_chunks = <<>>
    /\ s_started = 0

-----------------------------------------------------------------------------
(* Claims about the timing reconstruction, checked under SpecTiming *)

\* |x - y| < 1e-6
WithinTolerance(x, y) ==
    LET diff == RSub(x, y)
        n == Abs(diff[1])
        d == diff[2]
    IN  \/ n = 0
        \/ d \div 1000000 > n
        \/ (d \div 1000000 = n /\ d % 1000000 > 0)

TimingDone == t_pc = "done"
TimingResult == t_out[1]
HasTiming(segment) == {"startTime", "endTime"} \subseteq DOMAIN segment
PositiveDuration == RLess(Zero, t_duration)

\* C8: after reconstruction on a list with a positive measured duration and a
\* positive total provisional duration, the last segment's endTime is within
\* 1e-6 of the measured duration.
C8_RescaleExact ==
    (TimingDone /\ PositiveDuration /\ TotalChars(t_segments) > 0) =>
        LET last == TimingResult[Len(TimingResult)]
        IN  /\ HasTiming(last)
            /\ WithinTolerance(last.endTime, t_duration)

\* C8 witness: two segments with different punctuation densities were rescaled.
C8_Witness ==
    /\ TimingDone
    /\ PositiveDuration
    /\ Len(t_segments) = 2
    /\ RateFactor(t_segments[1].text) # RateFactor(t_segments[2].text)
    /\ HasTiming(TimingResult[2])
    /\ TimingResult[2].endTime = t_duration
    /\ t_duration # FromInt(1)

\* C9: after reconstruction the first segment starts at 0 and every segment
\* ends where the next one starts, so start times are non-decreasing.
C9_Contiguous ==
    (TimingDone /\ PositiveDuration) =>
        /\ \A i \in 1..Len(TimingResult) : HasTiming(TimingResult[i])
        /\ TimingResult[1].startTime = Zero
        /\ \A i \in 1..(Len(TimingResult) - 1) :
              /\ TimingResult[i].endTime = TimingResult[i + 1].startTime
              /\ RLeq(TimingResult[i].startTime, TimingResult[i + 1].startTime)

\* C9 witness: a second segment that starts strictly after 0, where the first ends.
C9_Witness ==
    /\ TimingDone
    /\ PositiveDuration
    /\ Len(TimingResult) = 2
    /\ HasTiming(TimingResult[2])
    /\ RLess(Zero, TimingResult[2].startTime)
    /\ TimingResult[1].endTime = TimingResult[2].startTime

\* C10 as stated: every enhanced segment has endTime > startTime, also when
\* some segment's text is empty.
C10_StrictlyPositiveDuration ==
    (TimingDone /\ PositiveDuration) =>
        \A i \in 1..Len(TimingResult) :
            /\ HasTiming(TimingResult[i])
            /\ RLess(TimingResult[i].startTime, TimingResult[i].endTime)

\* C10 amended: every enhanced segment has endTime >= startTime, and
\* endTime > startTime exactly when the segment's text is not empty.
C10_PositiveDurationIffText ==
    (TimingDone /\ PositiveDuration) =>
        \A i \in 1..Len(TimingResult) :
            /\ HasTiming(TimingResult[i])
            /\ RLeq(TimingResult[i].startTime, TimingResult[i].endTime)
            /\ RLess(TimingResult[i].startTime, TimingResult[i].endTime)
                   <=> Len(TimingResult[i].text) > 0

\* C10 witness: a list with an empty-text segment next to a non-empty one was
\* reconstructed, and the empty one got a zero-length interval.
C10_Witness ==
    /\ TimingDone
    /\ PositiveDuration
    /\ \E i, j \in 1..Len(TimingResult) :
          /\ TimingResult[i].text = <<>>
          /\ TimingResult[j].text # <<>>
          /\ HasTiming(TimingResult[i])
          /\ TimingResult[i].startTime = TimingResult[i].endTime
          /\ RLess(TimingResult[j].startTime, TimingResult[j].endTime)

AllTextsEmpty == t_segments # <<>> /\ TotalChars(t_segments) = 0
TimingOver == t_pc \in {"done", "rejected"}
Untimed(segment) == DOMAIN segment \cap {"startTime", "endTime", "wordTimings"} = {}

\* C11 as stated: on a degenerate input (every segment text empty, or a
\* measured duration of zero) the page result is a success that carries the
\* original segment list unmodified.
C11_DegenerateIsSuccess ==
    (TimingOver /\ (AllTextsEmpty \/ (ReachesSynthesis(t_segments) /\ IsZero(t_duration)))) =>
        /\ t_pc = "done"
        /\ t_out = Some(t_segments)

\* C11 amended: a list whose texts are all empty never reaches the
\* reconstruction, the page is answered "Combined text is empty"; a measured
\* duration of zero is the one input the reconstruction raises on, and then
\* the result carries the original segments without any timing field.
C11_DegenerateNeverDivides ==
    /\ (TimingOver /\ AllTextsEmpty) =>
           /\ t_pc = "rejected"
           /\ t_out = Some([success |-> FALSE, error |-> "Combined text is empty"])
    /\ TimingDone =>
           /\ t_warning <=> IsZero(t_duration)
           /\ t_warning =>
                  /\ t_out = Some(t_segments)
                  /\ \A i \in 1..Len(TimingResult) : Untimed(TimingResult[i])

\* C11 witness: two segments, an audio file of zero duration, and the two
\* segments returned as they came.
C11_Witness ==
    /\ TimingDone
    /\ IsZero(t_duration)
    /\ t_warning
    /\ Len(t_segments) = 2
    /\ t_out = Some(t_segments)
    /\ Untimed(TimingResult[1])

-----------------------------------------------------------------------------
(* Claims about split_text_by_tokens, checked under SpecSplit *)

SplitDone == k_pc = "done"

\* C12 as stated: for every text and every max_tokens >= 1 the chunks joined
\* in order are the text, byte for byte, with the encoder and without it.
C12_SplitLossless ==
    SplitDone => Bytes(Bytes(k_chunks)) = Bytes(k_text)

\* C12 witness: a chunk boundary fell inside a character, and the chunks on
\* its two sides hold U+FFFD where the character was.
C12_LossyBoundary ==
    /\ SplitDone
    /\ k_encoding
    /\ k_text = <<LATIN_A, THUMBS_UP>>
    /\ k_max_tokens = 2
    /\ k_chunks = << <<LATIN_A, REPLACEMENT>>, <<REPLACEMENT, REPLACEMENT>> >>

\* the duration line 463-473 gives word j of a segment
ClaimedWordDuration(segment, words, j) ==
    LET share == RMul(RSub(segment.endTime, segment.startTime),
                      Rat(Len(words[j]), WordsChars(words)))
        sentence == IF words[j][Len(words[j])] \in {".", "!", "?"}
                    THEN RMul(share, Rat(13, 10)) ELSE share
    IN  IF Len(words[j]) > 7 THEN RMul(sentence, Rat(12, 10)) ELSE sentence

-----------------------------------------------------------------------------
(* Claims about get_tts_pipeline, checked under SpecPipeline *)

\* the thread is between the entry and the exit of the with statement
InsideLock(t) == g_pc[t] \in {"check", "create", "return"}

\* at most one instance per voice, the registry holds it, every call has
\* returned it, and a thread is only past line 76 while it holds the lock
C21_Inv ==
    /\ \A voice \in Voices :
          /\ g_created[voice] <= 1
          /\ g_created[voice] = 1 <=> tts_pipelines[voice] # None
          /\ \A instance \in g_returned[voice] : tts_pipelines[voice] = Some(instance)
    /\ \A t \in Threads : InsideLock(t) => tts_pipelines_lock = Some(t)

\* an instance is only constructed by the thread that holds the lock, and an
\* entry of the registry is never replaced
C21_Step ==
    \A voice \in Voices :
        /\ g_created'[voice] # g_created[voice] =>
              \E t \in Threads : /\ tts_pipelines_lock = Some(t)
                                  /\ g_pc[t] = "create"
                                  /\ g_voice[t] = voice
        /\ tts_pipelines[voice] # None => tts_pipelines'[voice] = tts_pipelines[voice]

\* C21: under any interleaving of concurrent get_tts_pipeline calls at most
\* one pipeline instance is ever created per voice, every call for the voice
\* returns that instance, and creation only happens while the registry mutex
\* is held.
C21_OnePipelinePerVoice == []C21_Inv /\ [][C21_Step]_vars

\* C21 witness: two threads asked for the same voice while none existed; one
\* has constructed the instance and returned it, the other came through the
\* lock after it and is about to return the same instance.
C21_Witness ==
    \E t, u \in Threads :
        /\ t # u
        /\ g_voice[t] = "pe_leaf" /\ g_voice[u] = "pe_leaf"
        /\ g_pc[t] = "idle" /\ g_calls[t] = 1
        /\ g_returned["pe_leaf"] = {1}
        /\ g_pc[u] = "return" /\ g_calls[u] = 1
        /\ g_created["pe_leaf"] = 1

-----------------------------------------------------------------------------
(* Claims about the timing inside process_page, checked under Spec *)

\* the call of t runs lines 378-508 in this step
RunsTiming(t) == pc[t] = "timing" /\ pc'[t] # "timing"

\* every cached list holds dicts with speaker and text only
CacheIsRaw ==
    \A h \in ContentHashes :
        Has(segments_cache, h) =>
            \A i \in 1..Len(segments_cache[h][1]) :
                /\ Untimed(segments_cache[h][1][i])
                /\ DOMAIN segments_cache[h][1][i] = {"speaker", "text"}

\* C24: the timing reconstruction never modifies the segment cache: after
\* any sequence of process_page calls every cached list is the raw list of
\* the gateway, with speaker and text only, although the call that ran the
\* timing returned segments with startTime, endTime and wordTimings.
C24_TimingLeavesCache ==
    /\ []CacheIsRaw
    /\ [][\A t \in Threads : RunsTiming(t) => segments_cache' = segments_cache]_vars
    /\ [][\A h \in ContentHashes :
            Has(segments_cache, h) => segments_cache'[h] = segments_cache[h]]_vars

\* C24 witness: a call has stored the list of the gateway, synthesized the
\* audio and returned segments that carry timing fields, and the cache holds
\* the list it stored.
C24_Witness ==
    \E t \in Threads :
        /\ pc[t] = "done"
        /\ loc[t].stored
        /\ loc[t].wrote
        /\ loc[t].result # None
        /\ loc[t].result[1].success
        /\ "startTime" \in DOMAIN loc[t].result[1].segments[1]
        /\ "wordTimings" \in DOMAIN loc[t].result[1].segments[1]
        /\ segments_cache[loc[t].hash] = Some(loc[t].segments)
        /\ Untimed(loc[t].segments[1])

=============================================================================
